---- MODULE Spec2Model ----
(***************************************************************************)
(* A model of the two root finders of the Finance class                    *)
(* (src/unnamed/part_000): IRR with its embedded npv objective and         *)
(* seekZero, and XIRR with durYear and sumEq.                              *)
(*                                                                         *)
(* Numbers.  JavaScript numbers are IEEE 754 doubles; TLC has 32-bit       *)
(* integers.  The model computes with doubles built from natural numbers   *)
(* of unbounded size (sequences of limbs): every operation yields the      *)
(* exact result rounded to 53 bits, with subnormals, infinities and NaN,   *)
(* so that the drift of x -= 0.01 and the text of toFixed(5) are those of  *)
(* the program.  Math.pow is taken to round correctly.  Two things are     *)
(* left out: the sign of a zero (every zero is +0), and Math.pow for       *)
(* exponents that are not whole numbers (the dates of the model are whole  *)
(* years apart after durYear's rounding).                                  *)
(***************************************************************************)
EXTENDS Integers, Sequences, FiniteSets, Bags, TLC

(***************************************************************************)
(* Natural numbers of unbounded size: a little-endian sequence of limbs in *)
(* 0..LimbBase-1 without a most significant zero limb; <<>> is zero.  A    *)
(* product of two limbs fits TLC's 32-bit integers.  Carries are found by  *)
(* looking back over the limbs below instead of by recursion, which keeps  *)
(* the evaluation shallow.                                                 *)
(***************************************************************************)
LimbBits == 16 - 1
LimbBase == 2 ^ LimbBits

Max(a, b) == IF a >= b THEN a ELSE b
Min(a, b) == IF a <= b THEN a ELSE b

\* The sum of the values of a function to the natural numbers: the size of
\* the bag that holds f[i] copies of i.
Sum(f) == BagCardinality([i \in {j \in DOMAIN f : f[j] > 0} |-> f[i]])

\* a without its most significant zero limbs.
MagTrim(a) ==
    IF a = <<>> \/ a[Len(a)] # 0 THEN a
    ELSE SubSeq(a, 1, CHOOSE n \in 0 .. Len(a) :
                          (n = 0 \/ a[n] # 0) /\ \A k \in n + 1 .. Len(a) : a[k] = 0)

\* The limbs of n < 2^31.
MagOfNat(n) ==
    MagTrim(<<n % LimbBase, (n \div LimbBase) % LimbBase, n \div (LimbBase * LimbBase)>>)

\* Limb i of a, 0 beyond its length.
Limb(a, i) == IF 1 <= i /\ i <= Len(a) THEN a[i] ELSE 0

\* a + b, for limb sequences with or without leading zeros.  A carry enters
\* limb i when a limb below overflows and every limb between is full.
MagAdd(a, b) ==
    IF a = <<>> THEN MagTrim(b)
    ELSE IF b = <<>> THEN MagTrim(a)
    ELSE LET n == Max(Len(a), Len(b))
             s == <<>> \o [i \in 1 .. n + 1 |-> Limb(a, i) + Limb(b, i)]
             Carry(i) == \E j \in 1 .. i - 1 :
                             s[j] >= LimbBase /\ \A k \in j + 1 .. i - 1 : s[k] = LimbBase - 1
         IN  MagTrim(<<>> \o [i \in 1 .. n + 1 |->
                                 (s[i] + (IF Carry(i) THEN 1 ELSE 0)) % LimbBase])

\* a - b for a >= b.  A borrow enters limb i when a limb below is too small
\* and no limb between is larger than the limb it is taken from.
MagSub(a, b) ==
    IF a = <<>> \/ b = <<>> THEN a
    ELSE LET Borrow(i) == \E j \in 1 .. i - 1 :
                              a[j] < Limb(b, j) /\ \A k \in j + 1 .. i - 1 : a[k] <= Limb(b, k)
         IN  MagTrim(<<>> \o [i \in 1 .. Len(a) |->
                                 ((a[i] - Limb(b, i)) - (IF Borrow(i) THEN 1 ELSE 0) + LimbBase)
                                     % LimbBase])

\* -1, 0, 1 as a < b, a = b, a > b.
MagCmp(a, b) ==
    IF Len(a) < Len(b) THEN -1
    ELSE IF Len(a) > Len(b) THEN 1
    ELSE IF a = b THEN 0
    ELSE LET i == CHOOSE i \in 1 .. Len(a) :
                      a[i] # b[i] /\ \A k \in i + 1 .. Len(a) : a[k] = b[k]
         IN  IF a[i] < b[i] THEN -1 ELSE 1

\* a * k for 0 <= k <= LimbBase: the low halves of the products, plus the
\* high halves one limb up.
MagMulLimb(a, k) ==
    IF k = 0 \/ a = <<>> THEN <<>>
    ELSE IF k = 1 THEN a
    ELSE MagAdd(<<>> \o [i \in 1 .. Len(a) |-> (a[i] * k) % LimbBase],
                <<0>> \o [i \in 1 .. Len(a) |-> (a[i] * k) \div LimbBase])

\* a * b, column by column: column k holds the low halves of the products
\* a[i] * b[j] with i + j = k + 1 and the high halves of those one column
\* below.
MagMul(a, b) ==
    IF a = <<>> \/ b = <<>> THEN <<>>
    ELSE LET n == Len(a) + Len(b)
             Column(k) == Sum([i \in 1 .. Len(a) |->
                                 ((a[i] * Limb(b, k + 1 - i)) % LimbBase)
                                     + ((a[i] * Limb(b, k - i)) \div LimbBase)])
             col == <<>> \o [k \in 1 .. n |-> Column(k)]
         IN  MagAdd(<<>> \o [k \in 1 .. n |-> col[k] % LimbBase],
                    <<0>> \o [k \in 1 .. n |-> col[k] \div LimbBase])

\* a^k, by squaring.
RECURSIVE MagPow(_, _)
MagPow(a, k) ==
    IF k = 0 THEN <<1>>
    ELSE IF k = 1 THEN a
    ELSE LET h == MagPow(a, k \div 2)
         IN  IF k % 2 = 0 THEN MagMul(h, h) ELSE MagMul(MagMul(h, h), a)

\* a * 2^k.
MagShl(a, k) ==
    IF a = <<>> THEN <<>>
    ELSE [i \in 1 .. k \div LimbBits |-> 0] \o MagMulLimb(a, 2 ^ (k % LimbBits))

\* a \div 2^s.
MagShr(a, s) ==
    LET w == s \div LimbBits
        r == 2 ^ (s % LimbBits)
    IN  IF a = <<>> \/ w >= Len(a) THEN <<>>
        ELSE MagTrim(<<>> \o [i \in 1 .. Len(a) - w |->
                                 (a[i + w] \div r) + ((Limb(a, i + w + 1) % r) * (LimbBase \div r))])

\* The number of bits of n < LimbBase.
BitLen(n) == CHOOSE k \in 0 .. LimbBits : n < 2 ^ k /\ (k = 0 \/ n >= 2 ^ (k - 1))

MagBitLen(a) == IF a = <<>> THEN 0 ELSE LimbBits * (Len(a) - 1) + BitLen(a[Len(a)])

MagIsOdd(a) == a # <<>> /\ a[1] % 2 = 1

\* The number of trailing zero bits of 0 < n < LimbBase.
TrailingZeros(n) == CHOOSE k \in 0 .. LimbBits - 1 : n % (2 ^ (k + 1)) = 2 ^ k

\* The number of trailing zero bits of a # 0.
MagTrailingZeros(a) ==
    LET i == CHOOSE i \in 1 .. Len(a) : a[i] # 0 /\ \A k \in 1 .. i - 1 : a[k] = 0
    IN  LimbBits * (i - 1) + TrailingZeros(a[i])

\* Long division.  One step: the largest q with b * q <= rem, found from the
\* leading limbs of rem and b and corrected downwards.
RECURSIVE MagFitDown(_, _, _)
MagFitDown(rem, b, q) ==
    IF MagCmp(MagMulLimb(b, q), rem) > 0 THEN MagFitDown(rem, b, q - 1) ELSE q

MagQuotLimb(rem, b) ==
    IF MagCmp(rem, b) < 0 THEN 0
    ELSE LET lr == Len(rem)
             lb == Len(b)
             est == IF lr = lb THEN rem[lr] \div b[lb]
                    ELSE Min(LimbBase - 1, (rem[lr] * LimbBase + rem[lr - 1]) \div b[lb])
         IN  MagFitDown(rem, b, est)

\* [q, r] with a = b * q + r and r < b, taking in the limbs of a from limb i
\* down; rem is the remainder and q the quotient of the limbs above.  The
\* test of ql has the remainder evaluated before the next limb is taken in.
RECURSIVE MagDivAt(_, _, _, _, _)
MagDivAt(a, b, i, rem, q) ==
    IF i = 0 THEN [q |-> q, r |-> rem]
    ELSE LET cur == MagTrim(<<a[i]>> \o rem)
             ql  == MagQuotLimb(cur, b)
         IN  IF ql = 0 THEN MagDivAt(a, b, i - 1, cur, <<0>> \o q)
             ELSE MagDivAt(a, b, i - 1, MagSub(cur, MagMulLimb(b, ql)), <<ql>> \o q)

\* a \div b and whether the division is exact, for b # 0.  Both are scaled
\* first so that the leading limb of the divisor is at least LimbBase / 2;
\* the leading limbs of a, one fewer than b has, are less than b and are the
\* first remainder.
MagDivMod(a, b) ==
    IF a = <<>> THEN [q |-> <<>>, exact |-> TRUE]
    ELSE LET f  == LimbBase \div (b[Len(b)] + 1)
             af == MagMulLimb(a, f)
             bf == MagMulLimb(b, f)
             k  == Min(Len(af), Len(bf) - 1)
             d  == MagDivAt(af, bf, Len(af) - k, SubSeq(af, Len(af) - k + 1, Len(af)), <<>>)
         IN  [q |-> MagTrim(d.q), exact |-> d.r = <<>>]

(***************************************************************************)
(* IEEE 754 doubles, as JavaScript numbers are.  A finite number is        *)
(* (-1)^neg * m * 2^e with m odd, or zero (m = <<>>, e = 0, never          *)
(* negative: the sign of zero is not kept).  Every operation computes the  *)
(* exact result and rounds it to 53 bits, to nearest, ties to even.        *)
(***************************************************************************)
\* 52 stored bits and the hidden one; the exponent of the least subnormal;
\* the number of bits of the integer part of the largest finite number.
MantBits == 52 + 1
MinExp == (-1022) - 52
MaxBits == 1023 + 1

FZero == [k |-> "num", neg |-> FALSE, m |-> <<>>, e |-> 0]
FNaN == [k |-> "nan"]
FInf(neg) == [k |-> "inf", neg |-> neg]

\* The exact value n * 2^e (n # 0 fits a double) in its unique form.
FCanon(neg, n, e) ==
    IF n = <<>> THEN FZero
    ELSE IF MagBitLen(n) + e > MaxBits THEN FInf(neg)
    ELSE LET tz == MagTrailingZeros(n)
         IN  [k |-> "num", neg |-> neg, m |-> MagShr(n, tz), e |-> e + tz]

\* n * 2^e rounded to a double.
FRound(neg, n, e) ==
    IF n = <<>> THEN FZero
    ELSE LET s == Max(MagBitLen(n) - MantBits, MinExp - e)
         IN  IF s <= 0 THEN FCanon(neg, n, e)
             ELSE LET t      == MagShr(n, s - 1)
                      q      == MagShr(t, 1)
                      sticky == MagShl(t, s - 1) # n
                  IN  IF MagIsOdd(t) /\ (sticky \/ MagIsOdd(q))
                      THEN FCanon(neg, MagAdd(q, <<1>>), e + s)
                      ELSE FCanon(neg, q, e + s)

\* (n / d) * 2^e rounded to a double, for d # 0: the quotient is taken with
\* at least 56 bits, and a last bit that records an inexact division.
FRoundRatio(neg, n, d, e) ==
    IF n = <<>> THEN FZero
    ELSE LET sh == Max(0, MagBitLen(d) + MantBits + 3 - MagBitLen(n))
             dm == MagDivMod(MagShl(n, sh), d)
         IN  IF dm.exact THEN FRound(neg, MagShl(dm.q, 1), e - sh - 1)
             ELSE FRound(neg, MagAdd(MagShl(dm.q, 1), <<1>>), e - sh - 1)

FOfMag(neg, n) == FRound(neg, n, 0)
FOfInt(i) == IF i < 0 THEN FOfMag(TRUE, MagOfNat(-i)) ELSE FOfMag(FALSE, MagOfNat(i))

FIsNum(a) == a.k = "num"
FIsZero(a) == a.k = "num" /\ a.m = <<>>

FNeg(a) ==
    IF a.k = "nan" THEN a
    ELSE IF a.k = "inf" THEN FInf(~a.neg)
    ELSE IF a.m = <<>> THEN a
    ELSE [a EXCEPT !.neg = ~a.neg]

FAbs(a) ==
    IF a.k = "nan" THEN a
    ELSE IF a.k = "inf" THEN FInf(FALSE)
    ELSE [a EXCEPT !.neg = FALSE]

\* The sum of two finite numbers that are not zero.
FAddNum(a, b) ==
    LET ta == MagBitLen(a.m) + a.e
        tb == MagBitLen(b.m) + b.e
    IN  IF ta - tb > MantBits + 11 THEN a
        ELSE IF tb - ta > MantBits + 11 THEN b
        ELSE LET e  == Min(a.e, b.e)
                 na == MagShl(a.m, a.e - e)
                 nb == MagShl(b.m, b.e - e)
                 c  == MagCmp(na, nb)
             IN  IF a.neg = b.neg THEN FRound(a.neg, MagAdd(na, nb), e)
                 ELSE IF c = 0 THEN FZero
                 ELSE IF c > 0 THEN FRound(a.neg, MagSub(na, nb), e)
                 ELSE FRound(b.neg, MagSub(nb, na), e)

FAdd(a, b) ==
    IF a.k = "num" /\ b.k = "num"
    THEN (IF a.m = <<>> THEN b ELSE IF b.m = <<>> THEN a ELSE FAddNum(a, b))
    ELSE IF a.k = "nan" \/ b.k = "nan" THEN FNaN
    ELSE IF a.k = "inf" THEN (IF b.k = "inf" /\ b.neg # a.neg THEN FNaN ELSE a)
    ELSE b

FSub(a, b) == FAdd(a, FNeg(b))

FMul(a, b) ==
    IF a.k = "num" /\ b.k = "num"
    THEN FRound(a.neg # b.neg, MagMul(a.m, b.m), a.e + b.e)
    ELSE IF a.k = "nan" \/ b.k = "nan" THEN FNaN
    ELSE IF FIsZero(a) \/ FIsZero(b) THEN FNaN
    ELSE FInf(a.neg # b.neg)

FDiv(a, b) ==
    IF a.k = "num" /\ b.k = "num"
    THEN (IF b.m # <<>> THEN FRoundRatio(a.neg # b.neg, a.m, b.m, a.e - b.e)
          ELSE IF a.m = <<>> THEN FNaN ELSE FInf(a.neg))
    ELSE IF a.k = "nan" \/ b.k = "nan" THEN FNaN
    ELSE IF a.k = "inf" THEN (IF b.k = "inf" THEN FNaN ELSE FInf(a.neg # b.neg))
    ELSE FZero

\* "pos", "neg", "zero" or "nan": how a number compares with 0.
FSign(a) ==
    IF a.k = "nan" THEN "nan"
    ELSE IF a.k = "inf" THEN (IF a.neg THEN "neg" ELSE "pos")
    ELSE IF a.m = <<>> THEN "zero"
    ELSE IF a.neg THEN "neg" ELSE "pos"

\* a < b, a > b as JavaScript compares: false when either is NaN.
FLess(a, b) ==
    /\ a.k # "nan"
    /\ b.k # "nan"
    /\ a # b
    /\ IF a.k = "inf" THEN a.neg
       ELSE IF b.k = "inf" THEN ~b.neg
       ELSE FSign(FSub(a, b)) = "neg"

\* Math.pow(a, k) for an integer k: the exact power, rounded once.
FPowInt(a, k) ==
    IF k = 0 THEN FOfInt(1)
    ELSE IF a.k = "num" /\ a.m # <<>>
    THEN (IF k > 0 THEN FRound(a.neg /\ k % 2 = 1, MagPow(a.m, k), a.e * k)
          ELSE FRoundRatio(a.neg /\ k % 2 = 1, <<1>>, MagPow(a.m, -k), a.e * k))
    ELSE IF a.k = "nan" THEN FNaN
    ELSE IF a.k = "inf" THEN (IF k > 0 THEN FInf(a.neg /\ k % 2 = 1) ELSE FZero)
    ELSE IF k > 0 THEN FZero ELSE FInf(FALSE)

\* Whether a finite number is a whole number that fits a limb, and then its
\* value.
FIsSmallInt(a) ==
    a.k = "num" /\ (a.m = <<>> \/ (a.e >= 0 /\ MagBitLen(a.m) + a.e <= LimbBits))
FIntValue(a) ==
    IF a.m = <<>> THEN 0
    ELSE (IF a.neg THEN -1 ELSE 1) * a.m[1] * 2 ^ a.e

\* Math.pow(a, y).  The model computes it for whole y only, as the correctly
\* rounded power.
FPow(a, y) == CASE FIsSmallInt(y) -> FPowInt(a, FIntValue(y))

\* The integer nearest to m * 2^e * c, halves upwards.
MagRoundHalfUp(m, e, c) ==
    IF e >= 0 THEN MagShl(MagMul(m, c), e)
    ELSE MagShr(MagAdd(MagShl(MagMul(m, c), 1), MagShl(<<1>>, -e)), 1 - e)

\* Math.round(a): the nearest integer, halves towards +Infinity.
FMathRound(a) ==
    IF a.k # "num" THEN a
    ELSE IF a.m = <<>> \/ a.e >= 0 THEN a
    ELSE IF ~a.neg THEN FOfMag(FALSE, MagRoundHalfUp(a.m, a.e, <<1>>))
    ELSE LET twice == MagShl(a.m, 1)
             half  == MagShl(<<1>>, -a.e)
         IN  IF MagCmp(twice, half) <= 0 THEN FZero
             ELSE FOfMag(TRUE,
                         MagShr(MagAdd(MagSub(twice, half),
                                       MagSub(MagShl(<<1>>, 1 - a.e), <<1>>)),
                                1 - a.e))

TenTo21 == FOfMag(FALSE, MagPow(<<10>>, 21))

\* Number.prototype.toFixed(digits) as a value that is equal exactly when
\* the text is: the sign and the digits, or the text of a NaN, of an
\* infinity, or of a number of at least 10^21 (printed as by ToString).
FToFixed(a, digits) ==
    IF a.k = "nan" THEN [t |-> "NaN"]
    ELSE IF a.k = "inf" THEN [t |-> "Infinity", neg |-> a.neg]
    ELSE IF ~FLess(FAbs(a), TenTo21) THEN [t |-> "ToString", v |-> a]
    ELSE [t |-> "fixed", neg |-> a.neg,
          n |-> MagRoundHalfUp(a.m, a.e, MagPow(<<10>>, digits))]

\* The literal 0.01: the double nearest to 1/100.
Hundredth == FDiv(FOfInt(1), FOfInt(100))

\* What a variable holds before it has been assigned a number.
NoValue == [k |-> "none"]

(***************************************************************************)
(* State.  One call of IRR (cashFlow .. error) and one call of XIRR        *)
(* (cfs .. xerror).  pc and xpc are the position of each call.             *)
(***************************************************************************)
VARIABLES
    cashFlow,       \* IRR: cfs.cashFlow
    depth,          \* IRR: cfs.depth
    pc,             \* IRR: "idle", "phase1", "phase2", "returned", "threw"
    numberOfTries,  \* IRR: the counter of the npv closure
    x,              \* seekZero: x
    evals,          \* number of calls of npv made so far
    incs,           \* number of x += 1 steps made so far
    decs,           \* number of x -= 0.01 steps made so far
    result,         \* IRR: the value returned
    error,          \* IRR: the error thrown, or "none"
    cfs,            \* XIRR: cfs
    dts,            \* XIRR: dts, each date as a day and the milliseconds in it
    guess,          \* XIRR: guess
    guessLast,      \* XIRR: guessLast
    limit,          \* XIRR: limit
    durs,           \* XIRR: durs
    xpc,            \* XIRR: "idle", "loop", "returned", "threw"
    durCalls,       \* number of calls of durYear made so far
    trace,          \* the guess passed in, then the guess after each update
    xresult,        \* XIRR: the value returned
    xerror,         \* XIRR: the error thrown, or "none"
    hist,           \* the calls of IRR and XIRR made one after another
    pp,             \* the call of PP: its arguments and what it returned
    am              \* the call of AM: its arguments and what it returned

irrVars == <<cashFlow, depth, pc, numberOfTries, x, evals, incs, decs, result, error>>
xirrVars == <<cfs, dts, guess, guessLast, limit, durs, xpc, durCalls, trace, xresult, xerror>>
callVars == <<hist, pp, am>>
vars == <<irrVars, xirrVars, callVars>>

(***************************************************************************)
(* IRR: the inputs of the model.                                           *)
(***************************************************************************)
MaxDepth == 40

\* Series without a strictly positive or without a strictly negative entry.
UnsignedSeries ==
    { <<>>, <<0>>, <<5>>, <<0, 0>>, <<1, 2>>, <<-1, -2>>, <<-3, 0>>, <<0, 4>> }

\* The series of the repository's IRR test (finance.test.ts).
TestSeries == <<-6, 297, 307>>
TestDepth == 10 ^ 4

\* Series with both signs: roots on and off the scan grid, above and below
\* x = 1, an objective that never becomes negative, one that is negative
\* from the start on, and objectives that are not monotone.
SignedSeries ==
    { <<-100, 103>>,                    \* root 3
      <<-100, 110>>,                    \* root 10
      <<-1000, 1029>>,                  \* root 2.9
      <<-10000, 10199>>,                \* root 1.99
      <<-1000, 1007>>,                  \* root 0.7
      <<-10000, 5000, 5253>>,           \* root between 1.66 and 1.67
      <<100, -50>>,                     \* positive at every x >= 1
      <<-100, 50>>,                     \* root -50
      <<-100000000, 202455000, -102464775>>,  \* roots 0.5 and 1.955, positive between
      <<10000, -20400, 10404>> }        \* double root 2, never negative

IRRInputs ==
    ((UnsignedSeries \cup SignedSeries) \X ((-1) .. MaxDepth))
        \cup { <<TestSeries, TestDepth>> }

(***************************************************************************)
(* IRR (part_000 lines 85-111) and seekZero (lines 424-433).               *)
(***************************************************************************)
\* Lines 89-94: the two flags after the forEach.
HasPositive(cf) == \E i \in 1 .. Len(cf) : cf[i] > 0
HasNegative(cf) == \E i \in 1 .. Len(cf) : cf[i] < 0

\* A slip in line 95: && for ||.
SignsMissingBoth(cf) == ~HasPositive(cf) /\ ~HasNegative(cf)

\* Line 95: the condition of the throw.
SignsMissing(cf) == ~HasPositive(cf) \/ ~HasNegative(cf)

\* Line 87.
InitialTries == 1

\* A slip in line 100: === for >.
NpvExhaustedOnEquality(tries, d) == tries + 1 = d

\* A slip in lines 99-100: the test before the increment.
NpvExhaustedBeforeIncrement(tries, d) == tries > d

\* Lines 99-100: numberOfTries++, then the test; the counter after the
\* increment is tries + 1.
NpvExhausted(tries, d) == tries + 1 > d

\* Lines 105-107: the loop from index i on (cf[i + 1] is cashFlow[i]).
RECURSIVE NpvFrom(_, _, _, _)
NpvFrom(cf, rrate, i, npv) ==
    IF i >= Len(cf) THEN npv
    ELSE NpvFrom(cf, rrate, i + 1,
                 FAdd(npv, FDiv(FOfInt(cf[i + 1]), FPow(rrate, FOfInt(i)))))

\* Lines 103-108: what npv(rate) returns.
Npv(cf, rate) ==
    NpvFrom(cf, FAdd(FOfInt(1), FDiv(rate, FOfInt(100))), 1, FOfInt(cf[1]))

\* Line 425.
SeekStart == FOfInt(1)
\* Line 426: while (fn(x) > 0).
Phase1Continues(v) == FLess(FZero, v)
\* Line 427: x += 1.
Phase1Step(xv) == FAdd(xv, FOfInt(1))
\* A slip in line 429: while (fn(x) <= 0).
Phase2ContinuesOnZero(v) == FLess(v, FZero) \/ FIsZero(v)

\* Line 429: while (fn(x) < 0).
Phase2Continues(v) == FLess(v, FZero)
\* A slip in line 430: x -= 0.1.
Phase2StepTenth(xv) == FSub(xv, FDiv(FOfInt(1), FOfInt(10)))

\* Line 430: x -= 0.01.
Phase2Step(xv) == FSub(xv, Hundredth)
\* A slip in line 432: return x.
SeekReturnFinalX(xv) == xv

\* Line 432: return x + 0.01.
SeekReturn(xv) == FAdd(xv, Hundredth)

\* A slip in line 110: Math.round(v).
RoundToUnits(v) == FMathRound(v)

\* Line 110: Math.round(v * 100) / 100.
RoundToCents(v) == FDiv(FMathRound(FMul(v, FOfInt(100))), FOfInt(100))

\* Before the call: the class has no fields, and no call is under way.
IRRInit ==
    /\ cashFlow = <<>>
    /\ depth = 0
    /\ pc = "idle"
    /\ numberOfTries = 0
    /\ x = NoValue
    /\ evals = 0
    /\ incs = 0
    /\ decs = 0
    /\ result = NoValue
    /\ error = "none"

\* The call IRR(cfs): lines 86-97, and the entry of seekZero (line 425) when
\* nothing is thrown.
IRRValidate ==
    /\ pc = "idle"
    /\ \E in \in IRRInputs : cashFlow' = in[1] /\ depth' = in[2]
    /\ numberOfTries' = InitialTries
    /\ IF SignsMissing(cashFlow')
       THEN pc' = "threw" /\ error' = "InvalidCashFlowSigns" /\ UNCHANGED x
       ELSE pc' = "phase1" /\ x' = SeekStart /\ UNCHANGED error
    /\ UNCHANGED <<evals, incs, decs, result>>
    /\ UNCHANGED <<xirrVars, callVars>>

\* One evaluation of the condition of the first loop (line 426) and, when it
\* holds, the body (line 427).  fn is npv (lines 98-109).
SeekPhase1 ==
    /\ pc = "phase1"
    /\ evals' = evals + 1
    /\ numberOfTries' = numberOfTries + 1
    /\ IF NpvExhausted(numberOfTries, depth)
       THEN pc' = "threw" /\ error' = "SearchExhausted" /\ UNCHANGED <<x, incs>>
       ELSE IF Phase1Continues(Npv(cashFlow, x))
       THEN x' = Phase1Step(x) /\ incs' = incs + 1 /\ UNCHANGED <<pc, error>>
       ELSE pc' = "phase2" /\ UNCHANGED <<x, incs, error>>
    /\ UNCHANGED <<cashFlow, depth, decs, result>>
    /\ UNCHANGED <<xirrVars, callVars>>

\* One evaluation of the condition of the second loop (line 429) and, when
\* it holds, the body (line 430); otherwise the return (line 432) and the
\* rounding of IRR (line 110).
SeekPhase2 ==
    /\ pc = "phase2"
    /\ evals' = evals + 1
    /\ numberOfTries' = numberOfTries + 1
    /\ IF NpvExhausted(numberOfTries, depth)
       THEN pc' = "threw" /\ error' = "SearchExhausted" /\ UNCHANGED <<x, decs, result>>
       ELSE IF Phase2Continues(Npv(cashFlow, x))
       THEN x' = Phase2Step(x) /\ decs' = decs + 1 /\ UNCHANGED <<pc, error, result>>
       ELSE /\ pc' = "returned"
            /\ result' = RoundToCents(SeekReturn(x))
            /\ UNCHANGED <<x, decs, error>>
    /\ UNCHANGED <<cashFlow, depth, incs>>
    /\ UNCHANGED <<xirrVars, callVars>>

IRRNext == IRRValidate \/ SeekPhase1 \/ SeekPhase2

IRRDone == pc \in {"returned", "threw"}

(***************************************************************************)
(* XIRR: the inputs of the model.                                          *)
(***************************************************************************)
\* A Date: the day it falls on, counted from some first day, and the
\* milliseconds elapsed of that day.
DateOf(d, ms) == [day |-> d, ms |-> ms]

HalfDay == 12 * 60 * 60 * 1000

\* Arrays of dates: empty, of one date, a year apart, equal, in reverse
\* order, a year less half a day apart, and of three dates.
XDates ==
    { <<>>,
      <<DateOf(0, 0)>>,
      <<DateOf(0, 0), DateOf(365, 0)>>,
      <<DateOf(0, 0), DateOf(0, 0)>>,
      <<DateOf(365, 0), DateOf(0, 0)>>,
      <<DateOf(0, HalfDay), DateOf(365, 0)>>,
      <<DateOf(0, 0), DateOf(365, 0), DateOf(730, 0)>>,
      <<DateOf(0, 0), DateOf(365, 0), DateOf(1095, 0)>> }

\* Cash flows: without a strictly positive or a strictly negative entry, and
\* with both; <<-5, 0, 1>> from 0 makes Newton's method alternate between 0
\* and -2 for ever; <<-4, 9, -7>> over years 0, 1, 3 from 2.3 agrees for the
\* first time at the 100th update; an outflow and one inflow of 0.5, 0.55,
\* 0.6, 0.75, 1, 1.12345, 1.2, 4/3 and 1000 times the outflow.
XCashFlows ==
    { <<>>, <<0, 0>>, <<5, 7>>, <<-3, -4>>, <<0, 0, 0>>,
      <<-1000, 1200>>, <<-1000, 1000>>,
      <<-1000, 500>>, <<-1000, 550>>, <<-1000, 600>>, <<-4, 3>>, <<-3, 4>>,
      <<-1, 1000>>, <<-100000, 112345>>,
      <<-5, 0, 1>>, <<-4, 9, -7>>, <<-1000, 500, 700>>, <<-1000, 2000, -1500>> }

\* Guesses: the default 0, then 0.1, 2.3, 0.000001 and -1.
XGuesses ==
    { FZero,
      FDiv(FOfInt(1), FOfInt(10)),
      FDiv(FOfInt(23), FOfInt(10)),
      FDiv(FOfInt(1), FOfInt(1000000)),
      FOfInt(-1) }

XIRRInputs == XCashFlows \X XDates \X XGuesses

(***************************************************************************)
(* XIRR (part_000 lines 331-372), durYear (lines 400-404) and sumEq        *)
(* (lines 407-417).                                                        *)
(***************************************************************************)
\* Lines 336-344: the two flags after the loop.
XPositive(c) == \E i \in 1 .. Len(c) : c[i] > 0
XNegative(c) == \E i \in 1 .. Len(c) : c[i] < 0

\* A slip in line 346: && for ||.
XSignsMissingBoth(c) == ~XPositive(c) /\ ~XNegative(c)

\* Line 346: the condition of the throw.
XSignsMissing(c) == ~XPositive(c) \/ ~XNegative(c)

\* A slip in lines 332-348: the sign check made before the length check.
XIRRPreconditionSignsFirst(c, d) ==
    IF XSignsMissing(c) THEN "InvalidCashFlowSigns"
    ELSE IF Len(c) # Len(d) THEN "LengthMismatch"
    ELSE "none"

\* Lines 332-348: the error thrown by the two checks, or "none".
XIRRPrecondition(c, d) ==
    IF Len(c) # Len(d) THEN "LengthMismatch"
    ELSE IF XSignsMissing(c) THEN "InvalidCashFlowSigns"
    ELSE "none"

\* Line 350.
XLimit == 100

\* Line 401: const day = 24 * 60 * 60 * 1000.
Day == FOfInt(24 * 60 * 60 * 1000)

\* Date.prototype.getTime: milliseconds since the first day.
GetTime(date) == FAdd(FMul(FOfInt(date.day), Day), FOfInt(date.ms))

\* A slip in line 402: without Math.abs.
durYearSigned(date1, date2) ==
    LET diffDays == FMathRound(FDiv(FSub(GetTime(date2), GetTime(date1)), Day))
    IN  FDiv(diffDays, FOfInt(365))

\* Lines 400-404.
durYear(date1, date2) ==
    LET diffDays == FMathRound(FAbs(FDiv(FSub(GetTime(date2), GetTime(date1)), Day)))
    IN  FDiv(diffDays, FOfInt(365))

\* Lines 352-357: durs after the loop.
Durations(d) == <<FZero>> \o [i \in 1 .. Len(d) - 1 |-> durYear(d[1], d[i + 1])]

\* A slip in line 410: the first loop skips the entry at index 0.
RECURSIVE SumFxFromSecond(_, _, _, _, _)
SumFxFromSecond(c, du, g, i, sum_fx) ==
    IF i > Len(c) THEN sum_fx
    ELSE SumFxFromSecond(c, du, g, i + 1,
                         IF i = 1 THEN sum_fx
                         ELSE FAdd(sum_fx, FDiv(FOfInt(c[i]), FPow(FAdd(FOfInt(1), g), du[i]))))

\* Lines 410-412: the first loop from index i on (c[i] is cfs[i - 1]).
RECURSIVE SumFx(_, _, _, _, _)
SumFx(c, du, g, i, sum_fx) ==
    IF i > Len(c) THEN sum_fx
    ELSE SumFx(c, du, g, i + 1,
               FAdd(sum_fx, FDiv(FOfInt(c[i]), FPow(FAdd(FOfInt(1), g), du[i]))))

\* Lines 413-415: the second loop from index i on.
RECURSIVE SumFdx(_, _, _, _, _)
SumFdx(c, du, g, i, sum_fdx) ==
    IF i > Len(c) THEN sum_fdx
    ELSE SumFdx(c, du, g, i + 1,
                FAdd(sum_fdx,
                     FMul(FMul(FNeg(FOfInt(c[i])), du[i]),
                          FPow(FAdd(FOfInt(1), g), FSub(FOfInt(-1), du[i])))))

\* Lines 407-417.
sumEq(c, du, g) == FDiv(SumFx(c, du, g, 1, FZero), SumFdx(c, du, g, 1, FZero))

\* A slip in line 361: + for -.
NewtonUpdateAdding(c, du, gl) == FAdd(gl, sumEq(c, du, gl))

\* Line 361: guess = guessLast - this.sumEq(cfs, durs, guessLast).
NewtonUpdate(c, du, gl) == FSub(gl, sumEq(c, du, gl))

\* guessLast.toFixed(5) !== guess.toFixed(5).
ToFixed5Differ(gl, g) == FToFixed(gl, 5) # FToFixed(g, 5)

\* A slip in line 364: the loop without its limit.
LoopContinuesUnlimited(gl, g, lim) == ToFixed5Differ(gl, g)

\* Line 364: the condition of the do-while.
LoopContinues(gl, g, lim) == ToFixed5Differ(gl, g) /\ lim > 0

\* A slip in line 366: a loop that used up its limit never converged.
ConvergedWithinLimit(gl, g, lim) == ~ToFixed5Differ(gl, g) /\ lim > 0

\* Line 366: whether xirr is a number and not null.
Converged(gl, g, lim) == ~ToFixed5Differ(gl, g)

\* A slip in line 366: the guess kept as a fraction.
XirrFraction(g) == g

\* Line 366: guess * 100.
XirrPercent(g) == FMul(g, FOfInt(100))

\* A slip in line 371: Math.round(xirr).
XirrRoundToUnits(xirr) == FMathRound(xirr)

\* Line 371: Math.round(xirr * 100) / 100.
XirrRound(xirr) == FDiv(FMathRound(FMul(xirr, FOfInt(100))), FOfInt(100))

\* Before the call.
XIRRInit ==
    /\ cfs = <<>>
    /\ dts = <<>>
    /\ guess = NoValue
    /\ guessLast = NoValue
    /\ limit = 0
    /\ durs = <<>>
    /\ xpc = "idle"
    /\ durCalls = 0
    /\ trace = <<>>
    /\ xresult = NoValue
    /\ xerror = "none"

\* The call XIRR(cfs, dts, guess): lines 331-357, up to the entry of the
\* do-while.
XIRRCall ==
    /\ xpc = "idle"
    /\ \E in \in XIRRInputs :
           /\ cfs' = in[1]
           /\ dts' = in[2]
           /\ guess' = in[3]
           /\ trace' = <<in[3]>>
    /\ xerror' = XIRRPrecondition(cfs', dts')
    /\ IF xerror' # "none"
       THEN xpc' = "threw" /\ UNCHANGED <<limit, durs, durCalls>>
       ELSE /\ xpc' = "loop"
            /\ limit' = XLimit
            /\ durs' = Durations(dts')
            /\ durCalls' = Len(dts') - 1
    /\ UNCHANGED <<guessLast, xresult>>
    /\ UNCHANGED <<irrVars, callVars>>

\* One pass of the do-while (lines 359-364) and, when its condition fails,
\* lines 366-371.
XIRRIterate ==
    /\ xpc = "loop"
    /\ guessLast' = guess
    /\ guess' = NewtonUpdate(cfs, durs, guessLast')
    /\ limit' = limit - 1
    /\ trace' = Append(trace, guess')
    /\ IF LoopContinues(guessLast', guess', limit')
       THEN UNCHANGED <<xpc, xresult, xerror>>
       ELSE IF Converged(guessLast', guess', limit')
       THEN /\ xpc' = "returned"
            /\ xresult' = XirrRound(XirrPercent(guess'))
            /\ UNCHANGED xerror
       ELSE /\ xpc' = "threw"
            /\ xerror' = "DidNotConverge"
            /\ UNCHANGED xresult
    /\ UNCHANGED <<cfs, dts, durs, durCalls>>
    /\ UNCHANGED <<irrVars, callVars>>

XIRRNext == XIRRCall \/ XIRRIterate

XIRRDone == xpc \in {"returned", "threw"}

\* ---------------------------------------------------------------------
\* PP (lines 119-138).
\* ---------------------------------------------------------------------

\* What a function returns when it falls off its end, and what an array
\* gives beyond its length.
Undefined == [k |-> "undefined"]

\* cfs[i] read as a number, i counted from 0 as in the source: an element
\* that is missing is undefined, which arithmetic takes for NaN.
ElemNum(s, i) == IF i + 1 <= Len(s) THEN FOfInt(s[i + 1]) ELSE FNaN

\* Line 127: let yearsCounter = 1.
FirstYear == 1

\* Line 122: Math.abs(cfs[0]) / cfs[1].
PPEven(s) == FDiv(FAbs(ElemNum(s, 0)), ElemNum(s, 1))

\* Lines 129-137: the loop from index i on, with the running total and the
\* counter it has reached; the end of the loop returns nothing.
RECURSIVE PPFrom(_, _, _, _)
PPFrom(s, i, cumulativeCashFlow, yearsCounter) ==
    IF i >= Len(s) THEN Undefined
    ELSE LET c == FAdd(cumulativeCashFlow, ElemNum(s, i))
         IN  IF FLess(FZero, c)
             THEN FAdd(yearsCounter, FDiv(FSub(c, ElemNum(s, i)), ElemNum(s, i)))
             ELSE PPFrom(s, i + 1, c, FAdd(yearsCounter, FOfInt(1)))

\* Lines 119-138.
PP(numOfPeriods, s) ==
    IF numOfPeriods = 0 THEN PPEven(s)
    ELSE PPFrom(s, 1, ElemNum(s, 0), FOfInt(FirstYear))

\* Cash flows given to PP: those of the tests (finance.test.ts, lines
\* 39-43), series too short to have a payback, and an outlay followed by
\* three further flows.
PPSeries ==
    { <<>>, <<-50>>, <<-105, 25>>, <<-50, 10, 13, 16, 19, 22>>, <<-50, 10, 13>>,
      <<-20, 10, 20>>, <<-10, 0>> }
    \cup { <<a, b, c, d>> : a \in {-105, -50, -10}, b \in {0, 10, 25},
                            c \in {5, 13, 40}, d \in {16, 19, 60} }

PPInputs == {0, 5} \X PPSeries

PPInit == pp = [called |-> FALSE, numOfPeriods |-> 0, cfs |-> <<>>, result |-> NoValue]

\* The call PP(numOfPeriods, ...cfs).
PPCall ==
    /\ ~pp.called
    /\ \E in \in PPInputs :
           pp' = [called |-> TRUE, numOfPeriods |-> in[1], cfs |-> in[2],
                  result |-> PP(in[1], in[2])]
    /\ UNCHANGED <<irrVars, xirrVars, hist, am>>

\* ---------------------------------------------------------------------
\* AM (lines 162-186).
\* ---------------------------------------------------------------------

\* An optional argument is a sequence of at most one value: <<>> when the
\* caller leaves it out (undefined).
Given(v) == <<v>>
LeftOut == <<>>

\* !yearOrMonth (line 166): true of 0 and of undefined.
Falsy(opt) == opt = LeftOut \/ opt[1] = 0

\* if (payAtBeginning) (line 181): true of true only.
Truthy(opt) == opt # LeftOut /\ opt[1]

\* Line 163: rate / 12 / 100.
RatePerPeriod(rate) == FDiv(FDiv(rate, FOfInt(12)), FOfInt(100))

\* A slip in lines 167-168: the period used as it is given.
PeriodAsGiven(period) == period

\* Lines 167-168: period * 12.
YearAccruals(period) == period * 12

\* The value that stands for the third branch (lines 172-175), where nothing
\* accrues.
NotDefined == 0 - 1

\* Lines 166-175: the number of accruals handed to buildNumerator and to the
\* denominator.
Accruals(period, yearOrMonth) ==
    IF Falsy(yearOrMonth) THEN YearAccruals(period)
    ELSE IF yearOrMonth[1] = 1 THEN period
    ELSE NotDefined

\* Lines 180-185.
buildNumerator(ratePerPeriod, numInterestAccruals, payAtBeginning) ==
    LET n == IF Truthy(payAtBeginning) THEN numInterestAccruals - 1
             ELSE numInterestAccruals
    IN  FMul(ratePerPeriod, FPow(FAdd(FOfInt(1), ratePerPeriod), FOfInt(n)))

\* Lines 168, 171: Math.pow(1 + ratePerPeriod, n) - 1.
Denominator(ratePerPeriod, n) ==
    FSub(FPow(FAdd(FOfInt(1), ratePerPeriod), FOfInt(n)), FOfInt(1))

\* Line 178: Math.round(am * 100) / 100.
AMRound(v) == FDiv(FMathRound(FMul(v, FOfInt(100))), FOfInt(100))

\* Lines 177-178 for n accruals.
Payment(principal, rate, n, payAtBeginning) ==
    LET r == RatePerPeriod(rate)
    IN  AMRound(FMul(FOfInt(principal),
                     FDiv(buildNumerator(r, n, payAtBeginning), Denominator(r, n))))

\* Lines 162-179.
AM(principal, rate, period, yearOrMonth, payAtBeginning) ==
    LET n == Accruals(period, yearOrMonth)
    IN  IF n = NotDefined THEN FZero
        ELSE Payment(principal, rate, n, payAtBeginning)

\* Arguments of AM: the loan of the tests (finance.test.ts, lines 45-68) and
\* that of the documentation (line 160); terms in years with the flag 0 or
\* left out, terms in months with the flag 1, and a flag that is neither.
AMPrincipals == {100, 20000}
AMRates == { FOfInt(10), FDiv(FOfInt(15), FOfInt(2)), FZero }
AMYears == {1, 2, 5}
AMMonths == {1, 5, 12, 24, 60}
AMFlags == { LeftOut, Given(TRUE), Given(FALSE) }
AMTerms ==
    (AMYears \X { Given(0), LeftOut }) \cup (AMMonths \X { Given(1) })
        \cup { <<5, Given(2)>> }

AMInputs == AMPrincipals \X AMRates \X AMTerms \X AMFlags

AMInit ==
    am = [called |-> FALSE, principal |-> 0, rate |-> FZero, period |-> 0,
          yearOrMonth |-> LeftOut, payAtBeginning |-> LeftOut,
          accruals |-> 0, result |-> NoValue]

\* The call AM(principal, rate, period, yearOrMonth, payAtBeginning).
AMCall ==
    /\ ~am.called
    /\ \E in \in AMInputs :
           am' = [called |-> TRUE, principal |-> in[1], rate |-> in[2],
                  period |-> in[3][1], yearOrMonth |-> in[3][2],
                  payAtBeginning |-> in[4],
                  accruals |-> Accruals(in[3][1], in[3][2]),
                  result |-> AM(in[1], in[2], in[3][1], in[3][2], in[4])]
    /\ UNCHANGED <<irrVars, xirrVars, hist, pp>>

\* ---------------------------------------------------------------------
\* Calls made one after another on the same Finance object.
\* ---------------------------------------------------------------------

\* How many calls one object receives.
MaxCalls == 3

\* Arguments of IRR for the calls in a row: a search that is exhausted, one
\* that returns, and one refused for its signs.
SeqIRRInputs ==
    { <<(<<-100, 103>>), 4>>, <<(<<-100, 103>>), 5>>, <<(<<5, 7>>), 3>> }

\* Arguments of XIRR for the calls in a row: one that returns, one refused
\* for its lengths, and one whose dates coincide.
SeqXIRRInputs ==
    { <<(<<-1000, 1200>>), <<DateOf(0, 0), DateOf(365, 0)>>, FDiv(FOfInt(1), FOfInt(10))>>,
      <<(<<-1000, 1200>>), <<DateOf(0, 0)>>, FZero>>,
      <<(<<-3, 4>>), <<DateOf(0, 0), DateOf(365, 0)>>, FZero>> }

\* The class declares no fields (lines 1-84): before any call nothing is
\* recorded.
HistInit == hist = [cur |-> "none", done |-> <<>>]

\* No call is under way: calls are synchronous (lines 85, 331).
NoCallRunning ==
    /\ pc \in {"idle", "returned", "threw"}
    /\ xpc \in {"idle", "returned", "threw"}

\* What the call that has just finished was given and what came of it.
LastOutcome ==
    IF hist.cur = "IRR"
    THEN [fn |-> "IRR", in |-> <<cashFlow, depth>>,
          out |-> <<pc, result, error, evals>>]
    ELSE [fn |-> "XIRR", in |-> <<cfs, dts, trace[1]>>,
          out |-> <<xpc, xresult, xerror, Len(trace) - 1>>]

\* The record of the calls once a further call begins.
HistAfter(fn) ==
    [cur |-> fn,
     done |-> IF hist.cur = "none" THEN hist.done ELSE Append(hist.done, LastOutcome)]

CallsBegun == Len(hist.done) + (IF hist.cur = "none" THEN 0 ELSE 1)

\* A slip in line 87: the counter declared outside IRR, so that it keeps
\* its value from one call to the next.
CounterKept(tries) == IF tries = 0 THEN InitialTries ELSE tries

\* Line 87: numberOfTries is a local of IRR, set to 1 on entry.
CounterAtEntry(tries) == InitialTries

\* A further call IRR(cfs): lines 86-97 and the entry of seekZero (line 425);
\* every local of the call is created anew.
IRRCallInSequence ==
    /\ NoCallRunning
    /\ CallsBegun < MaxCalls
    /\ hist' = HistAfter("IRR")
    /\ \E in \in SeqIRRInputs : cashFlow' = in[1] /\ depth' = in[2]
    /\ numberOfTries' = CounterAtEntry(numberOfTries)
    /\ evals' = 0
    /\ incs' = 0
    /\ decs' = 0
    /\ result' = NoValue
    /\ IF SignsMissing(cashFlow')
       THEN pc' = "threw" /\ error' = "InvalidCashFlowSigns" /\ x' = NoValue
       ELSE pc' = "phase1" /\ x' = SeekStart /\ error' = "none"
    /\ UNCHANGED <<xirrVars, pp, am>>

\* A further call XIRR(cfs, dts, guess): lines 331-357; every local of the
\* call is created anew.
XIRRCallInSequence ==
    /\ NoCallRunning
    /\ CallsBegun < MaxCalls
    /\ hist' = HistAfter("XIRR")
    /\ \E in \in SeqXIRRInputs :
           /\ cfs' = in[1]
           /\ dts' = in[2]
           /\ guess' = in[3]
           /\ trace' = <<in[3]>>
    /\ xerror' = XIRRPrecondition(cfs', dts')
    /\ guessLast' = NoValue
    /\ xresult' = NoValue
    /\ IF xerror' # "none"
       THEN xpc' = "threw" /\ limit' = 0 /\ durs' = <<>> /\ durCalls' = 0
       ELSE /\ xpc' = "loop"
            /\ limit' = XLimit
            /\ durs' = Durations(dts')
            /\ durCalls' = Len(dts') - 1
    /\ UNCHANGED <<irrVars, pp, am>>

CallsNext ==
    \/ IRRCallInSequence
    \/ XIRRCallInSequence
    \/ SeekPhase1
    \/ SeekPhase2
    \/ XIRRIterate

Init == IRRInit /\ XIRRInit /\ HistInit /\ PPInit /\ AMInit

\* Calls of IRR.
SpecIRR == Init /\ [][IRRNext]_vars

\* Calls of XIRR.
SpecXIRR == Init /\ [][XIRRNext]_vars

\* Calls of IRR and XIRR one after another.
SpecCalls == Init /\ [][CallsNext]_vars

\* Calls of PP.
SpecPP == Init /\ [][PPCall]_vars

\* Calls of AM.
SpecAM == Init /\ [][AMCall]_vars

(***************************************************************************)
(* Claims about IRR.                                                       *)
(***************************************************************************)
\* The series of C1: no strictly positive entry, or no strictly negative one.
LacksASign(cf) ==
    (\A i \in 1 .. Len(cf) : cf[i] <= 0) \/ (\A i \in 1 .. Len(cf) : cf[i] >= 0)

\* C1: a call of IRR with a series that lacks a strictly positive or a
\* strictly negative entry ends at once with
\* InvalidCashFlowSigns and without a single evaluation of the objective,
\* whatever the depth (never SearchExhausted, never a value).
C1_SignsCheckedFirst ==
    (LacksASign(cashFlow) /\ pc # "idle") =>
        (pc = "threw" /\ error = "InvalidCashFlowSigns" /\ evals = 0)

\* C1's case: an all-zero series rejected with a depth below 2.
C1_Witness ==
    /\ cashFlow = <<0, 0>>
    /\ depth <= 1
    /\ pc = "threw"
    /\ error = "InvalidCashFlowSigns"

\* C2: depth is the greatest number of evaluations of the objective a call
\* may make: SearchExhausted is raised only when the number of evaluations
\* exceeds depth, so a search that needs at most depth evaluations returns.
\* The code raises it in the evaluation that brings the number to depth:
\* the counter starts at 1 (line 87) and is tested after its increment.
C2_ExhaustedOnlyBeyondDepth ==
    error = "SearchExhausted" => evals > depth

\* The steps a call of IRR can still make: none once it has returned or
\* thrown, otherwise one per evaluation left of max(depth, 1), and one.
IRRBudget ==
    IF IRRDone THEN 0 ELSE 1 + (IF depth > 1 THEN depth ELSE 1) - evals

\* C3: every call of IRR ends, with a value or an error, and never calls the
\* objective more than max(depth, 1) times: the objective is never called
\* more often than that, and every step of a call, whatever the series,
\* uses up one of the finitely many steps the call has left.
C3_Terminates ==
    /\ [](evals <= (IF depth > 1 THEN depth ELSE 1))
    /\ [](pc # "idle" => IRRBudget >= 0)
    /\ [][pc # "idle" => IRRBudget' < IRRBudget]_vars

\* C3's case: an objective that is positive at every scanned point, stopped
\* by the depth alone.
C3_Witness ==
    /\ cashFlow = <<100, -50>>
    /\ depth >= 2
    /\ error = "SearchExhausted"
    /\ evals = depth
    /\ incs = depth - 1

NonNegativeAt(cf, rate) == FSign(Npv(cf, rate)) \in {"pos", "zero"}
NonPositiveAt(cf, rate) == FSign(Npv(cf, rate)) \in {"neg", "zero"}

OutlayThenInflows(cf) ==
    /\ Len(cf) >= 2
    /\ cf[1] < 0
    /\ \A i \in 2 .. Len(cf) : cf[i] > 0

\* C5: for a negative outlay followed by positive inflows (the objective
\* strictly decreasing, with the single root R), IRR fails only by running
\* out of depth, and a returned value v has npv(v - 0.01) >= 0 >= npv(v),
\* that is v - 0.01 <= R <= v and v is within 0.01 of R; the call of the
\* repository's test returns a value strictly between 4951 and 4952.
C5_ReturnsRootOfOutlay ==
    /\ (OutlayThenInflows(cashFlow) /\ pc = "returned") =>
           /\ NonNegativeAt(cashFlow, FSub(result, Hundredth))
           /\ NonPositiveAt(cashFlow, result)
    /\ (OutlayThenInflows(cashFlow) /\ pc = "threw") =>
           (error = "SearchExhausted" /\ numberOfTries > depth)
    /\ (cashFlow = TestSeries /\ depth = TestDepth /\ IRRDone) =>
           (pc = "returned" /\ FLess(FOfInt(4951), result) /\ FLess(result, FOfInt(4952)))

\* C5's case: the call of the repository's test has returned.
C5_Witness ==
    /\ cashFlow = TestSeries
    /\ depth = TestDepth
    /\ pc = "returned"

(***************************************************************************)
(* Claims about XIRR.                                                      *)
(***************************************************************************)
\* The number of Newton updates made so far.
Updates == IF trace = <<>> THEN 0 ELSE Len(trace) - 1

\* Whether the guess after update i agrees with the guess before it to 5
\* decimal places, as texts.
AgreesAt(i) == FToFixed(trace[i], 5) = FToFixed(trace[i + 1], 5)

\* C6: a call of XIRR with arrays of different lengths ends at once with
\* LengthMismatch, also when the cash flows lack a sign: no duration has
\* been computed and no Newton update made.
C6_LengthCheckedFirst ==
    (xpc # "idle" /\ Len(cfs) # Len(dts)) =>
        /\ xpc = "threw"
        /\ xerror = "LengthMismatch"
        /\ durCalls = 0
        /\ durs = <<>>
        /\ Updates = 0

\* C6's case: two zero cash flows and three dates.
C6_Witness ==
    /\ cfs = <<0, 0>>
    /\ Len(dts) = 3
    /\ xpc = "threw"
    /\ xerror = "LengthMismatch"

\* C7: a call of XIRR with arrays of equal length whose cash flows lack a
\* strictly positive or a strictly negative entry ends at once with
\* InvalidCashFlowSigns, whatever the guess: sumEq has not been evaluated
\* and no Newton update made.
C7_XSignsCheckedBeforeIterating ==
    (xpc # "idle" /\ Len(cfs) = Len(dts) /\ LacksASign(cfs)) =>
        /\ xpc = "threw"
        /\ xerror = "InvalidCashFlowSigns"
        /\ Updates = 0
        /\ guess = trace[1]

\* C7's case: two positive cash flows, two dates, and the guess -1.
C7_Witness ==
    /\ cfs = <<5, 7>>
    /\ Len(dts) = 2
    /\ guess = FOfInt(-1)
    /\ xpc = "threw"
    /\ xerror = "InvalidCashFlowSigns"

\* C8: a call of XIRR that has passed its checks ends with DidNotConverge,
\* and without a value, exactly when it has made 100 updates none of which
\* agrees with the guess before it; it returns a value exactly when one of
\* its at most 100 updates agrees, also when that is the 100th.
C8_DidNotConvergeExactly ==
    (XIRRDone /\ xerror \notin {"LengthMismatch", "InvalidCashFlowSigns"}) =>
        /\ (xpc = "threw") <=> (Updates = 100 /\ \A i \in 1 .. 100 : ~AgreesAt(i))
        /\ (xpc = "returned") <=> (Updates <= 100 /\ \E i \in 1 .. Updates : AgreesAt(i))
        /\ (xpc = "threw") => (xerror = "DidNotConverge" /\ xresult = NoValue)
        /\ (xpc = "returned") => (xerror = "none" /\ xresult # NoValue)

\* C8's case: a call that returns a value after 100 updates, the 100th
\* being the first to agree.
C8_Witness ==
    /\ xpc = "returned"
    /\ Updates = 100
    /\ AgreesAt(100)
    /\ \A i \in 1 .. 99 : ~AgreesAt(i)

\* The passes of the loop a call of XIRR can still make.
XIRRBudget == IF xpc = "loop" THEN limit ELSE 0

\* C9: once the checks have passed XIRR makes between 1 and 100 updates,
\* none after the first that agrees with the guess before it, and the call
\* ends: limit counts the updates down from 100, only the last update made
\* can agree, a call in its loop has a pass left, and each pass uses up one.
C9_UpdatesBounded ==
    /\ [](xpc = "loop" => (limit = XLimit - Updates /\ limit > 0))
    /\ []((XIRRDone /\ xerror \notin {"LengthMismatch", "InvalidCashFlowSigns"}) =>
              (1 <= Updates /\ Updates <= XLimit))
    /\ [](\A i \in 1 .. Updates : AgreesAt(i) => (i = Updates /\ xpc = "returned"))
    /\ [][xpc = "loop" => XIRRBudget' < XIRRBudget]_vars

\* C9's case: a call that has ended after 100 updates without agreement.
C9_Witness ==
    /\ cfs = <<-5, 0, 1>>
    /\ xpc = "threw"
    /\ xerror = "DidNotConverge"
    /\ Updates = 100
    /\ limit = 0

\* Half a unit of the second decimal place, and a thousandth of it for the
\* rounding of the arithmetic.
HalfCent == FDiv(FOfInt(5001), FOfInt(1000000))

\* C10: the value XIRR returns is the last guess, which agrees with the one
\* before it to 5 decimal places, times 100 and rounded to 2 decimal places
\* (a finite value is within half a unit of the second place of 100 times
\* the guess, and rounding it again leaves it as it is); the guesses are
\* fractions: -1000 and 1200 a year apart give the guess 0.2 (to 5 places)
\* and the value 20.
C10_ResultIsPercentOfLastGuess ==
    xpc = "returned" =>
        /\ guess = trace[Len(trace)]
        /\ guessLast = trace[Len(trace) - 1]
        /\ FToFixed(guessLast, 5) = FToFixed(guess, 5)
        /\ xresult = FDiv(FMathRound(FMul(FMul(guess, FOfInt(100)), FOfInt(100))), FOfInt(100))
        /\ FIsNum(guess) =>
               /\ ~FLess(HalfCent, FAbs(FSub(xresult, FMul(guess, FOfInt(100)))))
               /\ FDiv(FMathRound(FMul(xresult, FOfInt(100))), FOfInt(100)) = xresult
        /\ (cfs = <<-1000, 1200>> /\ durs = <<FZero, FOfInt(1)>> /\ trace[1] \in {FZero, FDiv(FOfInt(1), FOfInt(10))}) =>
               /\ FToFixed(guess, 5) = FToFixed(FDiv(FOfInt(2), FOfInt(10)), 5)
               /\ xresult = FOfInt(20)

\* C10's case: -1000 and 1200 a year apart from the guess 0.1 have
\* returned 20.
C10_Witness ==
    /\ cfs = <<-1000, 1200>>
    /\ durs = <<FZero, FOfInt(1)>>
    /\ trace[1] = FDiv(FOfInt(1), FOfInt(10))
    /\ xpc = "returned"
    /\ xresult = FOfInt(20)
\* The inputs of C11: arrays of equal length, cash flows with both signs.
WellFormed == Len(cfs) = Len(dts) /\ ~LacksASign(cfs)

\* C11 as stated: a call of XIRR with arrays of equal length and cash flows
\* of both signs converges: it returns a number and does not fail.
C11_AlwaysConverges ==
    (XIRRDone /\ WellFormed) => (xpc = "returned" /\ FIsNum(xresult))

\* C11 as amended: such a call ends in one of two ways: it returns after an
\* update that agrees with the guess before it to 5 decimal places, or it
\* fails with DidNotConverge after 100 updates the last of which does not
\* agree; it never fails in another way, and both ways occur: -1000 and
\* 1200 a year apart return a number from the guesses 0 and 0.1, and
\* <<-5, 0, 1>> over the years 0, 1, 2 from the guess 0 does not converge.
C11_ConvergesOrFails ==
    (XIRRDone /\ WellFormed) =>
        /\ \/ xpc = "returned" /\ AgreesAt(Updates)
           \/ xpc = "threw" /\ xerror = "DidNotConverge"
                            /\ Updates = XLimit /\ ~AgreesAt(Updates)
        /\ (cfs = <<-1000, 1200>> /\ durs = <<FZero, FOfInt(1)>>
               /\ trace[1] \in {FZero, FDiv(FOfInt(1), FOfInt(10))}) =>
               (xpc = "returned" /\ FIsNum(xresult))
        /\ (cfs = <<-5, 0, 1>> /\ durs = <<FZero, FOfInt(1), FOfInt(2)>> /\ trace[1] = FZero) =>
               xpc = "threw"

\* C11's case: <<-5, 0, 1>> over the years 0, 1, 2 from the guess 0 has
\* failed; the guesses alternate between 0 and -2.
C11_Witness ==
    /\ cfs = <<-5, 0, 1>>
    /\ xerror = "DidNotConverge"
    /\ trace[1] = FZero
    /\ trace[2] = FOfInt(-2)
    /\ trace[Len(trace)] = FZero

\* The inputs of C12: an outflow, then an inflow 365 days later, and the
\* guess 0.1.
OutflowThenInflowAYearLater ==
    /\ Len(cfs) = 2
    /\ cfs[1] < 0
    /\ cfs[2] > 0
    /\ durs = <<FZero, FOfInt(1)>>
    /\ trace[1] = FDiv(FOfInt(1), FOfInt(10))

\* 100 * (F / C - 1) for the outflow -C and the inflow F.
SimpleReturnPercent == FMul(FSub(FDiv(FOfInt(cfs[2]), FOfInt(-cfs[1])), FOfInt(1)), FOfInt(100))

SameCallBefore(r) == r.fn = LastOutcome.fn /\ r.in = LastOutcome.in

CallFinished == hist.cur # "none" /\ NoCallRunning

\* The arguments stay as they were given while the call runs.
ArgumentsKept ==
    (hist' = hist) =>
        (cashFlow' = cashFlow /\ depth' = depth /\ cfs' = cfs /\ dts' = dts)

CallsIndependent ==
    /\ CallFinished =>
           \A i \in 1 .. Len(hist.done) :
               SameCallBefore(hist.done[i]) => hist.done[i].out = LastOutcome.out
    /\ hist.cur = "IRR" => numberOfTries = evals + 1
    /\ (CallFinished /\ hist.cur = "IRR" /\ cashFlow = <<-100, 103>> /\ depth = 5) =>
           (pc = "returned" /\ result = FDiv(FOfInt(301), FOfInt(100)) /\ evals = 4)

\* C13: IRR and XIRR keep nothing from one call to the next and leave their
\* arguments as they were: a call that has finished has the outcome (value
\* or error, after as many steps) of every earlier call with the same
\* arguments, the first of which was made on a fresh object; the counter of
\* IRR is one more than the evaluations of the call under way, so it starts
\* at 1 in every call, and IRR(<<-100, 103>>) with depth 5 returns 3.01 also
\* after a call that ended in SearchExhausted.
C13_CallsAreIndependent == []CallsIndependent /\ [][ArgumentsKept]_vars

\* The third call returns 3.01 after a call that exhausted its search and a
\* call of XIRR that returned.
C13_Witness ==
    /\ Len(hist.done) = 2
    /\ hist.done[1].fn = "IRR"
    /\ hist.done[1].out[3] = "SearchExhausted"
    /\ hist.done[2].fn = "XIRR"
    /\ hist.done[2].out[1] = "returned"
    /\ hist.cur = "IRR"
    /\ pc = "returned"
    /\ depth = 5
    /\ result = FDiv(FOfInt(301), FOfInt(100))

\* ---------------------------------------------------------------------
\* PP.
\* ---------------------------------------------------------------------

\* cfs[0] + ... + cfs[k], k counted from 0 as in the source.
RECURSIVE CumulativeTo(_, _)
CumulativeTo(s, k) == IF k < 0 THEN 0 ELSE CumulativeTo(s, k - 1) + s[k + 1]

\* The investment is recovered at period k, and not before.
RecoveredAt(s, k) ==
    /\ CumulativeTo(s, k) > 0
    /\ \A j \in 0 .. k - 1 : CumulativeTo(s, j) <= 0

HasPayback(s) == \E k \in 1 .. Len(s) - 1 : RecoveredAt(s, k)

\* (k - 1) + (amount still unrecovered at the start of period k) / cfs[k].
PaybackPeriod(s) ==
    LET k == CHOOSE j \in 1 .. Len(s) - 1 : RecoveredAt(s, j)
    IN  FAdd(FOfInt(k - 1), FDiv(FOfInt(0 - CumulativeTo(s, k - 1)), FOfInt(s[k + 1])))

Tiny == FDiv(FOfInt(1), FOfInt(10 ^ 9))

Near(a, b) == FIsNum(a) /\ FIsNum(b) /\ FLess(FAbs(FSub(a, b)), Tiny)

\* C14: for uneven cash flows PP returns the number of periods needed to
\* recover the investment: when the cumulative cash flow first becomes
\* positive at period k, the result is (k - 1) plus the amount still
\* unrecovered at the start of period k over cfs[k]; PP(5, -50, 10, 13, 16,
\* 19, 22) lies strictly between 3.3 and 3.6.
C14_PaybackPeriod ==
    (pp.called /\ pp.numOfPeriods # 0 /\ HasPayback(pp.cfs)) =>
        /\ Near(pp.result, PaybackPeriod(pp.cfs))
        /\ pp.cfs = <<-50, 10, 13, 16, 19, 22>> =>
               /\ FLess(FDiv(FOfInt(33), FOfInt(10)), pp.result)
               /\ FLess(pp.result, FDiv(FOfInt(36), FOfInt(10)))

\* ---------------------------------------------------------------------
\* AM.
\* ---------------------------------------------------------------------

AccrualsAsDocumented(period, yearOrMonth) ==
    IF yearOrMonth = Given(1) THEN 12 * period ELSE period

\* C16: yearOrMonth = 1 means that period is in years and yearOrMonth = 0
\* that it is in months: interest accrues 12 * period times in the first
\* case and period times in the second, and the payment is that of so many
\* accruals.
C16_FlagOneMeansYears ==
    (am.called /\ am.yearOrMonth \in {Given(0), Given(1)}) =>
        /\ am.accruals = AccrualsAsDocumented(am.period, am.yearOrMonth)
        /\ am.result = Payment(am.principal, am.rate,
                               AccrualsAsDocumented(am.period, am.yearOrMonth),
                               am.payAtBeginning)

\* ---------------------------------------------------------------------
\* seekZero.
\* ---------------------------------------------------------------------

\* What one step of a call of IRR may do to the point x of seekZero.
SeekStep ==
    /\ (pc = "idle" /\ pc' = "phase1") => x' = FOfInt(1)
    /\ pc = "phase1" =>
           /\ pc' \in {"phase1", "phase2", "threw"}
           /\ pc' = "phase1" =>
                  /\ FLess(FZero, Npv(cashFlow, x))
                  /\ x' = FAdd(x, FOfInt(1))
                  /\ FLess(x, x')
           /\ pc' = "phase2" => (NonPositiveAt(cashFlow, x) /\ x' = x)
    /\ pc = "phase2" =>
           /\ pc' \in {"phase2", "returned", "threw"}
           /\ pc' = "phase2" =>
                  /\ FLess(Npv(cashFlow, x), FZero)
                  /\ x' = FSub(x, Hundredth)
                  /\ FLess(x', x)
           /\ pc' = "returned" =>
                  /\ NonNegativeAt(cashFlow, x)
                  /\ x' = x
                  /\ result' = RoundToCents(FAdd(x, Hundredth))
    /\ pc \in {"returned", "threw"} => pc' = pc

\* C17: seekZero runs two phases in a fixed order.  It starts at x = 1; in
\* phase 1 x goes up by 1 per step, and only while f(x) > 0; phase 2 begins
\* only when phase 1 has found f(x) <= 0, and there x goes down by 0.01 per
\* step, and only while f(x) < 0; phase 1 never resumes, and the value
\* returned is the last x plus 0.01 (which IRR rounds).  In phase 1 x is one
\* more than the steps made, and no step of phase 2 has been made.
C17_TwoPhasesInOrder ==
    /\ [](pc = "phase1" => (x = FOfInt(1 + incs) /\ decs = 0))
    /\ [][SeekStep]_vars

\* Both phases have stepped more than once before a value was returned.
C17_Witness ==
    /\ pc = "returned"
    /\ incs >= 2
    /\ decs >= 2
    /\ depth < TestDepth

\* An outlay and one inflow whose root 100 * (F - C) / C is a whole number,
\* so that it lies on the grid of phase 1.
WholeRoot(cf) ==
    /\ OutlayThenInflows(cf)
    /\ Len(cf) = 2
    /\ (100 * (cf[2] + cf[1])) % (0 - cf[1]) = 0

RootOf(cf) == FOfInt((100 * (cf[2] + cf[1])) \div (0 - cf[1]))

\* The value seekZero returns, before IRR rounds it.
Unrounded == FAdd(x, Hundredth)

\* C18: for a strictly decreasing objective with root R the unrounded value
\* v returned by seekZero always has R < v <= R + 0.01: v - 0.01 is the
\* highest scanned point with f >= 0; so when R lies on the scan grid, as
\* for <<-100, 110>> with R = 10, the result is R + 0.01 and not R.
C18_StrictlyAboveRoot ==
    /\ (OutlayThenInflows(cashFlow) /\ pc = "returned") =>
           NonNegativeAt(cashFlow, x)
    /\ (WholeRoot(cashFlow) /\ pc = "returned") =>
           /\ FLess(RootOf(cashFlow), Unrounded)
           /\ ~FLess(FAdd(RootOf(cashFlow), Hundredth), Unrounded)
    /\ (cashFlow = <<-100, 110>> /\ pc = "returned") =>
           result = FDiv(FOfInt(1001), FOfInt(100))

\* C18, as the arithmetic of doubles allows: R <= v <= R + 0.01 up to the
\* rounding of the evaluations (here: to 10^-9).  v - 0.01 is the highest
\* scanned point at which the computed f is >= 0.  When R lies on the scan
\* grid the result is R + 0.01 if the computed f(R) is exactly 0, as for
\* <<-100, 103>> with R = 3 and the result 3.01, and R if the computed f(R)
\* is negative, as for <<-100, 110>> with R = 10, where 110 / 1.1 is
\* computed as less than 100 and the result is 10.
C18_RootWithinStep ==
    /\ (OutlayThenInflows(cashFlow) /\ pc = "returned") =>
           /\ NonNegativeAt(cashFlow, x)
           /\ NonNegativeAt(cashFlow, FSub(FSub(Unrounded, Hundredth), Tiny))
           /\ NonPositiveAt(cashFlow, FAdd(Unrounded, Tiny))
           /\ result = RoundToCents(Unrounded)
    /\ (WholeRoot(cashFlow) /\ pc = "returned") =>
           /\ FLess(FSub(RootOf(cashFlow), Tiny), Unrounded)
           /\ FLess(Unrounded, FAdd(FAdd(RootOf(cashFlow), Hundredth), Tiny))
    /\ (cashFlow = <<-100, 103>> /\ pc = "returned") =>
           /\ FIsZero(Npv(cashFlow, FOfInt(3)))
           /\ Unrounded = FAdd(FOfInt(3), Hundredth)
           /\ result = FDiv(FOfInt(301), FOfInt(100))
    /\ (cashFlow = <<-100, 110>> /\ pc = "returned") =>
           /\ FLess(Npv(cashFlow, FOfInt(10)), FZero)
           /\ Unrounded = FOfInt(10)
           /\ result = FOfInt(10)

\* IRR(<<-100, 110>>) has returned 10, the root itself.
C18_Witness ==
    /\ cashFlow = <<-100, 110>>
    /\ pc = "returned"
    /\ decs = 1
    /\ result = FOfInt(10)

\* ---------------------------------------------------------------------
\* The evaluation counter of IRR.
\* ---------------------------------------------------------------------

\* The search of a call is still running or has returned: none of its
\* evaluations raised.
NoneRaised == pc \in {"phase1", "phase2", "returned"}

\* C19: the counter of IRR starts at 1 and is incremented, before the test,
\* in every call of the objective, so the n-th call of the objective raises
\* SearchExhausted iff n >= depth: the evaluations that did not raise are
\* fewer than depth, and the one that raised is not.  A search that makes K
\* increments in phase 1 and M decrements in phase 2 calls the objective
\* K + M + 2 times, and returns iff depth >= K + M + 3: IRR(<<-100, 103>>),
\* with K = 2 and M = 0, returns iff depth >= 5.
C19_CounterAndDepth ==
    /\ pc # "idle" => numberOfTries = evals + 1
    /\ (pc # "idle" /\ evals = 0) => numberOfTries = 1
    /\ NoneRaised => (evals = 0 \/ evals < depth)
    /\ error = "SearchExhausted" =>
           (evals >= depth /\ (evals = 1 \/ evals - 1 < depth))
    /\ pc = "phase1" => evals = incs
    /\ pc = "phase2" => evals = incs + decs + 1
    /\ pc = "returned" => (evals = incs + decs + 2 /\ depth >= incs + decs + 3)
    /\ error = "SearchExhausted" => (evals <= incs + decs + 2 /\ depth < incs + decs + 3)
    /\ (cashFlow = <<-100, 103>> /\ IRRDone) =>
           IF depth >= 5
           THEN pc = "returned" /\ incs = 2 /\ decs = 0 /\ evals = 4
           ELSE error = "SearchExhausted"

\* A search of K = 9 increments and M = 1 decrement has returned with the
\* least depth that lets it, 13.
C19_Witness ==
    /\ cashFlow = <<-100, 110>>
    /\ pc = "returned"
    /\ incs = 9
    /\ decs = 1
    /\ evals = 12
    /\ depth = 13

\* ---------------------------------------------------------------------
\* The durations of XIRR.
\* ---------------------------------------------------------------------

DayMs == 24 * 60 * 60 * 1000

Abs(n) == IF n < 0 THEN 0 - n ELSE n

\* round(|b - a| in days) in whole numbers, for dates whose times of day
\* differ by less than a day: the whole days apart, one more when the rest
\* is half a day or more, one less when more than half a day is missing.
DaysApart(a, b) ==
    LET d == Abs(b.day - a.day)
        r == IF b.day > a.day THEN b.ms - a.ms
             ELSE IF b.day < a.day THEN a.ms - b.ms
             ELSE Abs(b.ms - a.ms)
    IN  IF 2 * r >= DayMs THEN d + 1
        ELSE IF 2 * r < 0 - DayMs THEN d - 1
        ELSE d

DurationsSet == xpc # "idle" /\ xerror # "LengthMismatch" /\ xerror # "InvalidCashFlowSigns"

\* C20: the durations of XIRR are durs[0] = 0 and, for i >= 1, durs[i] =
\* round(|dates[i] - dates[0]| in days) / 365; they are never negative and
\* the same whichever of the two dates comes first: a date n days before
\* dates[0] gets the duration of a date n days after it, and durYear(a, b) =
\* durYear(b, a).
C20_DurationsSymmetric ==
    DurationsSet =>
        /\ Len(durs) = Len(dts)
        /\ durs[1] = FZero
        /\ \A i \in 2 .. Len(dts) :
               /\ durs[i] = FDiv(FOfInt(DaysApart(dts[1], dts[i])), FOfInt(365))
               /\ durs[i] = FDiv(FOfInt(DaysApart(dts[i], dts[1])), FOfInt(365))
               /\ ~FLess(durs[i], FZero)
        /\ \A i, j \in 1 .. Len(dts) :
               durYear(dts[i], dts[j]) = durYear(dts[j], dts[i])

\* The second date is a year before the first, and its duration is 1.
C20_Witness ==
    /\ DurationsSet
    /\ dts = <<DateOf(365, 0), DateOf(0, 0)>>
    /\ durs = <<FZero, FOfInt(1)>>

\* ---------------------------------------------------------------------
\* The Newton update of XIRR.
\* ---------------------------------------------------------------------

\* What entry i contributes to NPV(r): cf[i] / (1 + r)^durs[i].
NpvTerm(i, r) == FDiv(FOfInt(cfs[i]), FPow(FAdd(FOfInt(1), r), durs[i]))

\* What entry i contributes to NPV'(r): -cf[i] * durs[i] * (1 + r)^(-1 - durs[i]).
NpvPrimeTerm(i, r) ==
    FMul(FMul(FNeg(FOfInt(cfs[i])), durs[i]),
         FPow(FAdd(FOfInt(1), r), FSub(FOfInt(-1), durs[i])))

\* The sum of the first n terms, added in the order of the entries.
RECURSIVE SumOfTerms(_, _)
SumOfTerms(t, n) == IF n = 0 THEN FZero ELSE FAdd(SumOfTerms(t, n - 1), t[n])

NPV(r) == SumOfTerms([i \in 1 .. Len(cfs) |-> NpvTerm(i, r)], Len(cfs))

NPVPrime(r) == SumOfTerms([i \in 1 .. Len(cfs) |-> NpvPrimeTerm(i, r)], Len(cfs))

\* The guess the last update started from.
GuessBefore == trace[Len(trace) - 1]

\* The last update made is a step of Newton's method over all the entries.
LastUpdateIsNewton ==
    /\ trace[Len(trace)] = FSub(GuessBefore, FDiv(NPV(GuessBefore), NPVPrime(GuessBefore)))
    /\ durs[1] = FZero
    /\ NpvTerm(1, GuessBefore) = FOfInt(cfs[1])

\* 1 + r is a number other than 0, so that (1 + r)^(-1) is one too.
PowerDefined(r) == FIsNum(r) /\ ~FIsZero(FAdd(FOfInt(1), r))

\* C21: each iteration of XIRR replaces guess by guess - NPV(guess) /
\* NPV'(guess), NPV(r) being the sum over all entries of cf[i] /
\* (1 + r)^durs[i] and NPV'(r) the sum over all entries of -cf[i] * durs[i] *
\* (1 + r)^(-1 - durs[i]); both sums take every index, 0 included, and the
\* entry at index 0, of duration 0, contributes cf[0] to NPV and 0 to NPV'.
C21_NewtonOverAllEntries ==
    Updates >= 1 =>
        /\ LastUpdateIsNewton
        /\ FIsZero(NpvPrimeTerm(1, GuessBefore))

\* C21, with the contribution of the entry at index 0 to NPV' as the code
\* computes it: 0 when 1 + guess is a number other than 0; when 1 + guess
\* is 0 the product 0 * (1 + guess)^(-1) is 0 * Infinity, which is NaN, and
\* so it is when guess is NaN.
C21_NewtonOverAllEntriesWhereDefined ==
    Updates >= 1 =>
        /\ LastUpdateIsNewton
        /\ NpvPrimeTerm(1, GuessBefore) =
               (IF PowerDefined(GuessBefore) \/ GuessBefore.k = "inf" THEN FZero ELSE FNaN)

\* Three entries over the years 0, 1 and 2 have returned after updates from
\* guesses at which every power is defined.
C21_Witness ==
    /\ cfs = <<-1000, 500, 700>>
    /\ durs = <<FZero, FOfInt(1), FOfInt(2)>>
    /\ xpc = "returned"
    /\ Updates >= 2
    /\ \A i \in 1 .. Updates : PowerDefined(trace[i])

\* Some update of the call started from a guess at which the step of
\* Newton's method is undefined: NPV' is 0 there, or 1 + guess is 0.
StepUndefinedAt(i) ==
    \/ FIsZero(NPVPrime(trace[i]))
    \/ FIsZero(FAdd(FOfInt(1), trace[i]))

\* C22: XIRR never returns a value that is not a finite number: a call that
\* returns returns one, and a call one of whose updates was undefined,
\* because NPV' was 0 (as when every date equals the first, so that every
\* duration is 0) or because 1 + guess was 0, ends with DidNotConverge.
C22_NeverReturnsNonFinite ==
    /\ xpc = "returned" => FIsNum(xresult)
    /\ (XIRRDone /\ Updates >= 1 /\ \E i \in 1 .. Updates : StepUndefinedAt(i)) =>
           (xpc = "threw" /\ xerror = "DidNotConverge")

====
